---- MODULE Spec2Model ----
(***************************************************************************)
(* A model of repo2text (src/repo2text/repo2text.py): the ignore-pattern   *)
(* set of load_gitignore, the two os.walk traversals of build_project_tree *)
(* and collect_files, the assembly loop of build_final_string and the      *)
(* pipeline of main.                                                       *)
(*                                                                         *)
(* Text is a sequence of tokens: a token is one character ("a", "\n", a    *)
(* space) or one literal of the program that is never split (a file name,  *)
(* "### File: ", a placeholder).  A path is the sequence of its            *)
(* components; the root directory '.' is the empty sequence.               *)
(***************************************************************************)
EXTENDS Integers, Sequences, FiniteSets, TLC

VARIABLES
    fs,               \* the directory tree: the set of existing paths
    rev,              \* the order in which scandir lists a directory
    unlistable,       \* directories whose scandir call raises OSError
    gitignore_lines,  \* the rules of ./.gitignore (<<>> when absent)
    pc,               \* position of main
    spec,             \* main's `spec`: the list returned by load_gitignore
    walk_stack,       \* os.walk: directories still to be yielded, next first
    tree_list,        \* build_project_tree's `tree` list
    tree,             \* main's `tree`: the joined tree text
    files_to_include, \* collect_files' list, then main's `files`
    final_string,     \* main's `final_string`
    clipboard,        \* what copy_to_clipboard was handed
    output_file,      \* what write_output_file was handed
    files,            \* build_final_string's argument `files`
    info,             \* per file of `files`: its bytes and what the OS answers
    idx,              \* build_final_string: index of the next file of the loop
    output,           \* build_final_string's `output` list
    final_output,     \* build_final_string's return value
    console           \* the previews print_truncated_content wrote

mainVars == <<fs, rev, unlistable, gitignore_lines, pc, spec, walk_stack,
              tree_list, tree, files_to_include, final_string, clipboard,
              output_file>>
asmVars == <<files, info, idx, output, final_output, console>>
vars == <<mainVars, asmVars>>

NL == "\n"
None == "None"

------------------------------------------------------------------------------
(* Bounds of the model.                                                     *)

\* longest .gitignore (number of rules) enumerated
MaxRules == 2
\* longest file list handed to build_final_string
MaxFiles == 2
\* longest file content (bytes) in the assembler's enumeration
MaxLen == 1
\* longest tail (bytes) after the padding and the lines of a long file
MaxTail == 1

------------------------------------------------------------------------------
(* The directory trees enumerated: every parent-closed subset of Nodes.     *)

DirNodes == { <<"build">>, <<"sub">>, <<"sub", "in">> }
FileNodes == { <<".gitignore">>, <<"a.txt">>, <<"b.txt">>,
               <<"build", "keep.txt">>, <<"sub", "x.pyc">>,
               <<"sub", "in", "a.txt">> }
Nodes == DirNodes \cup FileNodes
Root == << >>

\* the names of Nodes in code-point order, the order of Python's sorted()
NameOrder ==
    <<".gitignore", "a.txt", "b.txt", "build", "in", "keep.txt", "sub", "x.pyc">>
Rank(name) == CHOOSE i \in 1..Len(NameOrder) : NameOrder[i] = name

Parent(p) == SubSeq(p, 1, Len(p) - 1)
Basename(p) == IF p = Root THEN "" ELSE p[Len(p)]
IsPrefix(a, b) == Len(a) <= Len(b) /\ SubSeq(b, 1, Len(a)) = a
IsProperPrefix(a, b) == Len(a) < Len(b) /\ SubSeq(b, 1, Len(a)) = a

ParentClosed(S) == \A n \in S : Parent(n) = Root \/ Parent(n) \in S

------------------------------------------------------------------------------
(* pathspec: gitwildmatch patterns and PathSpec.match_file.                 *)
(* A pattern is [neg, anchored, segs, dir_only]: '!' prefix, a '/' inside   *)
(* the pattern (it then matches from the root only), its components, and a  *)
(* trailing '/'.                                                            *)

Pat(neg, anchored, segs, dir_only) ==
    [neg |-> neg, anchored |-> anchored, segs |-> segs, dir_only |-> dir_only]
DirPat(name) == Pat(FALSE, FALSE, <<name>>, TRUE)
NamePat(name) == Pat(FALSE, FALSE, <<name>>, FALSE)

\* fnmatch of one pattern component against one path component, over the
\* names of Nodes: a literal matches itself, '*.pyc' matches 'x.pyc'
SegMatch(seg, name) ==
    \/ seg = name
    \/ <<seg, name>> \in { <<"*.pyc", "x.pyc">> }

\* the default_ignore_patterns literal
default_ignore_patterns ==
    << DirPat(".git"), DirPat(".svn"), DirPat(".hg"), NamePat(".DS_Store"),
       DirPat("__pycache__"), NamePat("*.pyc"), NamePat("*.pyo"),
       NamePat("*.pyd"), NamePat("*$py.class"), NamePat("*.so"),
       DirPat("build"), DirPat("dist"), DirPat("downloads"), DirPat("eggs"),
       DirPat(".eggs"), DirPat("lib"), DirPat("lib64"), DirPat("parts"),
       DirPat("sdist") >>

\* the .gitignore rules enumerated:
\*   sub/   !sub/in/a.txt   !build/keep.txt   a.txt
RuleChoices ==
    { DirPat("sub"),
      Pat(TRUE, TRUE, <<"sub", "in", "a.txt">>, FALSE),
      Pat(TRUE, TRUE, <<"build", "keep.txt">>, FALSE),
      NamePat("a.txt") }

SeqsUpTo(S, n) == UNION { [1..k -> S] : k \in 0..n }

\* one compiled pattern against a path; `slash` says the tested string ends
\* with '/'.  The pattern's regex matches the path of the entry it names and
\* every path below it; a dir_only pattern needs a '/' after the entry.
MatchPattern(pat, p, slash) ==
    LET n == Len(pat.segs)
        starts == IF pat.anchored THEN {1} ELSE 1..Len(p)
    IN  \E s \in starts :
            /\ s + n - 1 <= Len(p)
            /\ \A k \in 1..n : SegMatch(pat.segs[k], p[s + k - 1])
            /\ pat.dir_only => (s + n - 1 < Len(p) \/ slash)

\* PathSpec.match_file: the last pattern that matches decides
MatchFile(patterns, p, slash) ==
    LET M == { i \in 1..Len(patterns) : MatchPattern(patterns[i], p, slash) }
        last == CHOOSE i \in M : \A j \in M : j <= i
    IN  IF M = {} THEN FALSE ELSE ~patterns[last].neg

\* mutant of CombineSpecs: the built-in rules first, the .gitignore rules last
CombineSpecsDefaultsFirst(a, b) == b \o a

\* PathSpec.__add__: the patterns of both, left operand first
CombineSpecs(a, b) == a \o b

\* load_gitignore's return value
LoadGitignore(lines) == CombineSpecs(lines, default_ignore_patterns)

------------------------------------------------------------------------------
(* os.path helpers and os.walk's listing of one directory.                  *)

RelPath(root) == IF root = Root THEN <<".">> ELSE root
PathJoin(a, name) == Append(a, name)
Normpath(p) == SelectSeq(p, LAMBDA c : c # ".")
\* rel_path.count(os.sep)
CountSep(p) == Len(p) - 1

Children(dir) == { n \in fs : Parent(n) = dir }

\* scandir's order: by name, ascending or descending
ScanOrder(a, b) == IF rev THEN Rank(a) > Rank(b) ELSE Rank(a) < Rank(b)
SetToSeq(S) == CHOOSE f \in [1..Cardinality(S) -> S] : \A x \in S : \E i \in DOMAIN f : f[i] = x
ScanNames(S) == SortSeq(SetToSeq(S), ScanOrder)

\* the `dirs` and `files` os.walk yields for `root`
WalkDirs(root) == ScanNames({ Basename(n) : n \in Children(root) \cap DirNodes })
WalkFiles(root) == ScanNames({ Basename(n) : n \in Children(root) \cap FileNodes })

\* sorted(files)
Sorted(names) == SortSeq(names, LAMBDA a, b : Rank(a) < Rank(b))

Spaces(n) == [i \in 1..n |-> " "]

RECURSIVE Join(_, _)
\* sep.join(list)
Join(list, sep) ==
    IF list = << >> THEN << >>
    ELSE IF Len(list) = 1 THEN list[1]
    ELSE list[1] \o <<sep>> \o Join(Tail(list), sep)

RECURSIVE Concat(_)
Concat(list) == IF list = << >> THEN << >> ELSE list[1] \o Concat(Tail(list))

\* the filter of dirs[:] (lines 148-151 and 187-190)
KeepDir(root, d) ==
    ~MatchFile(spec, Normpath(PathJoin(RelPath(root), d)), TRUE)
FilterDirs(root) == SelectSeq(WalkDirs(root), LAMBDA d : KeepDir(root, d))

\* the test of lines 168 and 194 on one file of `root`
RelFilePath(root, file) == Normpath(PathJoin(RelPath(root), file))
KeepFile(root, file) ==
    /\ ~MatchFile(spec, RelFilePath(root, file), FALSE)
    /\ Basename(RelFilePath(root, file)) # ".gitignore"

\* mutant of Level: the '+ 1' of line 158 left out
LevelCountOnly(rel_path) == IF rel_path = <<".">> THEN 0 ELSE CountSep(rel_path)

\* lines 155-158
Level(rel_path) == IF rel_path = <<".">> THEN 0 ELSE CountSep(rel_path) + 1

\* the lines build_project_tree appends for one yielded directory
TreeLinesOf(root) ==
    LET rel_path == RelPath(root)
        level == Level(rel_path)
        indent == Spaces(4 * level)
        directory == IF rel_path # <<".">> THEN Basename(root) ELSE "."
        subindent == Spaces(4 * (level + 1))
        kept == SelectSeq(Sorted(WalkFiles(root)), LAMBDA f : KeepFile(root, f))
    IN  << indent \o <<directory, "/">> >>
        \o [i \in 1..Len(kept) |-> subindent \o <<kept[i]>>]

\* mutant of CollectedOf: the files in scandir's order, not sorted
CollectedOfUnsorted(root) ==
    LET kept == SelectSeq(WalkFiles(root), LAMBDA f : KeepFile(root, f))
    IN  [i \in 1..Len(kept) |-> RelFilePath(root, kept[i])]

\* the paths collect_files appends for one yielded directory
CollectedOf(root) ==
    LET kept == SelectSeq(Sorted(WalkFiles(root)), LAMBDA f : KeepFile(root, f))
    IN  [i \in 1..Len(kept) |-> RelFilePath(root, kept[i])]

\* mutant of Descend: `dirs` rebound instead of assigned in place (dirs = [...]),
\* so that os.walk still descends into every directory
DescendUnfiltered(root) ==
    LET dirs == WalkDirs(root)
    IN  [i \in 1..Len(dirs) |-> PathJoin(root, dirs[i])] \o Tail(walk_stack)

\* os.walk, top-down: the directories it goes on to after `root`
Descend(root) ==
    LET dirs == FilterDirs(root)
    IN  [i \in 1..Len(dirs) |-> PathJoin(root, dirs[i])] \o Tail(walk_stack)

------------------------------------------------------------------------------
(* Files as build_final_string sees them.                                   *)
(* info[i] = [bytes, check, text, tty] for files[i]:                        *)
(*   bytes  the file's content                                              *)
(*   check  what is_binary_file's open/read does: "ok", "open_fail" (open   *)
(*          raises), "read_fail" (open succeeds, read(1024) raises)         *)
(*   text   what the open/readlines of lines 252-253 does: "ok" or "fail"   *)
(*   tty    whether print() of the preview succeeds (FALSE: it raises, as   *)
(*          with a console encoding that cannot encode the content)         *)

ChunkSize == 1024
PreviewLines == 20

PathSep == "/"
RECURSIVE PathStr(_)
\* a path as the string the program holds (os.sep between components)
PathStr(p) ==
    IF Len(p) = 1 THEN p[1] ELSE PathStr(Parent(p)) \o PathSep \o p[Len(p)]

Min(a, b) == IF a <= b THEN a ELSE b
MaxOf(S) == CHOOSE x \in S : \A y \in S : y <= x

\* decoding as utf-8 with errors='replace', byte by byte over the alphabet
DecodeByte(b) ==
    CASE b = 10 -> NL
      [] b = 97 -> "a"
      [] b = 98 -> "b"
      [] b = 0 -> "\\x00"
      [] OTHER -> "\\ufffd"
Decode(bytes) == [i \in 1..Len(bytes) |-> DecodeByte(bytes[i])]

\* mutant of ReadChunk: file.read() of the whole file
ReadWholeFile(bytes) == bytes

\* file.read(1024) of the 'rb' handle
ReadChunk(bytes) == SubSeq(bytes, 1, Min(ChunkSize, Len(bytes)))

\* mutant of is_binary_file: a check that raises answers False
is_binary_file_false_on_error(fi) ==
    IF fi.check # "ok" THEN FALSE
    ELSE \E i \in 1..Len(ReadChunk(fi.bytes)) : ReadChunk(fi.bytes)[i] = 0

\* is_binary_file
is_binary_file(fi) ==
    IF fi.check # "ok" THEN TRUE
    ELSE \E i \in 1..Len(ReadChunk(fi.bytes)) : ReadChunk(fi.bytes)[i] = 0

\* f.readlines(): the text cut after each newline, line ends kept
Readlines(s) ==
    LET E == { i \in 1..Len(s) : s[i] = NL }
             \cup (IF Len(s) > 0 /\ s[Len(s)] # NL THEN {Len(s)} ELSE {})
        EndOf(k) == CHOOSE e \in E : Cardinality({ x \in E : x <= e }) = k
        StartOf(k) == IF k = 1 THEN 1 ELSE EndOf(k - 1) + 1
    IN  [k \in 1..Cardinality(E) |-> SubSeq(s, StartOf(k), EndOf(k))]

\* str.rstrip('\n')
Rstrip(s) ==
    LET K == { i \in 1..Len(s) : s[i] # NL }
    IN  IF K = {} THEN << >> ELSE SubSeq(s, 1, MaxOf(K))

\* ''.join(lines[:20]).rstrip('\n')
TruncatedContent(lines) ==
    Rstrip(Concat(SubSeq(lines, 1, Min(PreviewLines, Len(lines)))))

\* what print_truncated_content writes
PrintTruncated(content) ==
    <<"Fore.WHITE">> \o content \o <<"...", NL, "Style.RESET_ALL">>

Header(file) == <<"### File: ", file, NL, "### Code block below:", NL>>
BinaryOmitted == <<"(Binary file omitted)", NL>>
EmptyFile == <<"(Empty file)", NL>>
CouldNotRead(e) == <<"(Could not read file: ", e, ")", NL>>

\* mutant of NoLines: a file of blank lines counts as empty
NoLinesBlank(lines) == \A i \in 1..Len(lines) : lines[i] = <<NL>>

\* line 254: `not lines`
NoLines(lines) == lines = << >>

\* mutant of DocContent: the truncated preview goes into the document
DocContentTruncated(lines) == TruncatedContent(lines) \o <<NL>>

\* line 261: f"{''.join(lines)}\n"
DocContent(lines) == Concat(lines) \o <<NL>>

\* what lines 246-266 append to `output` after the header.  The preview is
\* printed inside the try block, after the content was appended: when that
\* print raises, the handler of line 263 appends its message as well.
Bodies(fi) ==
    IF is_binary_file(fi) THEN << BinaryOmitted >>
    ELSE IF fi.text = "fail" THEN << CouldNotRead("OSError") >>
    ELSE LET lines == Readlines(Decode(fi.bytes))
         IN  IF NoLines(lines) THEN << EmptyFile >>
             ELSE IF fi.tty THEN << DocContent(lines) >>
             ELSE << DocContent(lines), CouldNotRead("UnicodeEncodeError") >>

\* whether the iteration reaches print_truncated_content and it returns
Previews(fi) ==
    /\ ~is_binary_file(fi)
    /\ fi.text = "ok"
    /\ Readlines(Decode(fi.bytes)) # << >>
    /\ fi.tty

\* one iteration of the loop of lines 237-267
Section(file, fi) == << Header(file) >> \o Bodies(fi)

\* lines 232-235
Preamble(t) == << <<"Project Tree:">>, t, << >> >>

RECURSIVE Sections(_, _)
Sections(fl, inf) ==
    IF fl = << >> THEN << >>
    ELSE Section(fl[1], inf[1]) \o Sections(Tail(fl), Tail(inf))

\* build_final_string as a whole
BuildFinalString(t, fl, inf) == Join(Preamble(t) \o Sections(fl, inf), NL)

------------------------------------------------------------------------------
(* main: load_gitignore, the two walks, build_final_string, the sinks.      *)

\* lines 119-127: the rules read from .gitignore, none when it is absent
UserRules == IF <<".gitignore">> \in fs THEN gitignore_lines ELSE << >>

\* line 43
LoadStep ==
    /\ pc = "load"
    /\ spec' = LoadGitignore(UserRules)
    /\ walk_stack' = << Root >>
    /\ pc' = "tree"
    /\ UNCHANGED <<fs, rev, unlistable, gitignore_lines, tree_list, tree,
                   files_to_include, final_string, clipboard, output_file>>
    /\ UNCHANGED asmVars

\* one iteration of `for root, dirs, files in os.walk('.')` (lines 146-169);
\* os.walk is called without onerror, so a directory whose scandir raises is
\* passed over without being yielded
TreeStep ==
    /\ pc = "tree"
    /\ walk_stack # << >>
    /\ LET root == Head(walk_stack)
       IN  IF root \in unlistable
           THEN /\ walk_stack' = Tail(walk_stack)
                /\ tree_list' = tree_list
           ELSE /\ walk_stack' = Descend(root)
                /\ tree_list' = tree_list \o TreeLinesOf(root)
    /\ UNCHANGED <<fs, rev, unlistable, gitignore_lines, pc, spec, tree,
                   files_to_include, final_string, clipboard, output_file>>
    /\ UNCHANGED asmVars

\* line 171, and main going on to collect_files
TreeReturn ==
    /\ pc = "tree"
    /\ walk_stack = << >>
    /\ tree' = Join(tree_list, NL)
    /\ walk_stack' = << Root >>
    /\ pc' = "collect"
    /\ UNCHANGED <<fs, rev, unlistable, gitignore_lines, spec, tree_list,
                   files_to_include, final_string, clipboard, output_file>>
    /\ UNCHANGED asmVars

\* one iteration of the loop of collect_files (lines 185-195)
CollectStep ==
    /\ pc = "collect"
    /\ walk_stack # << >>
    /\ LET root == Head(walk_stack)
       IN  IF root \in unlistable
           THEN /\ walk_stack' = Tail(walk_stack)
                /\ files_to_include' = files_to_include
           ELSE /\ walk_stack' = Descend(root)
                /\ files_to_include' = files_to_include \o CollectedOf(root)
    /\ UNCHANGED <<fs, rev, unlistable, gitignore_lines, pc, spec, tree_list,
                   tree, final_string, clipboard, output_file>>
    /\ UNCHANGED asmVars

\* line 197
CollectReturn ==
    /\ pc = "collect"
    /\ walk_stack = << >>
    /\ pc' = "final"
    /\ UNCHANGED <<fs, rev, unlistable, gitignore_lines, spec, walk_stack,
                   tree_list, tree, files_to_include, final_string, clipboard,
                   output_file>>
    /\ UNCHANGED asmVars

\* the content every file of the walked tree is given: "a\n", readable
WalkedFile == [bytes |-> <<97, 10>>, check |-> "ok", text |-> "ok", tty |-> TRUE]

\* line 52
FinalStep ==
    /\ pc = "final"
    /\ final_string' =
          BuildFinalString(tree,
              [i \in 1..Len(files_to_include) |-> PathStr(files_to_include[i])],
              [i \in 1..Len(files_to_include) |-> WalkedFile])
    /\ pc' = "clipboard"
    /\ UNCHANGED <<fs, rev, unlistable, gitignore_lines, spec, walk_stack,
                   tree_list, tree, files_to_include, clipboard, output_file>>
    /\ UNCHANGED asmVars

\* line 55: copy_to_clipboard is handed the document (an exception of
\* pyperclip.copy is caught and reported, lines 340-341)
ClipboardStep ==
    /\ pc = "clipboard"
    /\ clipboard' = final_string
    /\ pc' = "write"
    /\ UNCHANGED <<fs, rev, unlistable, gitignore_lines, spec, walk_stack,
                   tree_list, tree, files_to_include, final_string, output_file>>
    /\ UNCHANGED asmVars

\* lines 58-59: with --output, write_output_file is handed the document (an
\* exception while writing is caught and reported, lines 356-357)
WriteStep ==
    /\ pc = "write"
    /\ \E given \in BOOLEAN :
          output_file' = IF given THEN final_string ELSE None
    /\ pc' = "done"
    /\ UNCHANGED <<fs, rev, unlistable, gitignore_lines, spec, walk_stack,
                   tree_list, tree, files_to_include, final_string, clipboard>>
    /\ UNCHANGED asmVars

AsmIdle ==
    /\ files = << >>
    /\ info = << >>
    /\ idx = 0
    /\ output = << >>
    /\ final_output = None
    /\ console = << >>

ExistingDirs(S) == (S \cap DirNodes) \cup { Root }

Init ==
    /\ fs \in { S \in SUBSET Nodes : ParentClosed(S) }
    /\ rev \in BOOLEAN
    /\ unlistable \in { {} } \cup { {d} : d \in ExistingDirs(fs) }
    /\ gitignore_lines \in
          IF <<".gitignore">> \in fs
          THEN IF unlistable = {} THEN SeqsUpTo(RuleChoices, MaxRules)
               ELSE { << >> } \cup { <<r>> : r \in RuleChoices }
          ELSE { << >> }
    /\ pc = "load"
    /\ spec = << >>
    /\ walk_stack = << >>
    /\ tree_list = << >>
    /\ tree = None
    /\ files_to_include = << >>
    /\ final_string = None
    /\ clipboard = None
    /\ output_file = None
    /\ AsmIdle

Next ==
    \/ LoadStep
    \/ TreeStep
    \/ TreeReturn
    \/ CollectStep
    \/ CollectReturn
    \/ FinalStep
    \/ ClipboardStep
    \/ WriteStep

Spec == Init /\ [][Next]_vars

------------------------------------------------------------------------------
(* build_final_string, one loop iteration at a time.                        *)

\* lines 232-235
AsmStart ==
    /\ idx = 0
    /\ pc = "final"
    /\ output' = Preamble(tree)
    /\ idx' = 1
    /\ UNCHANGED <<files, info, final_output, console>>
    /\ UNCHANGED mainVars

\* lines 237-267 for files[idx]
LoopStep ==
    /\ idx \in 1..Len(files)
    /\ output' = output \o Section(files[idx], info[idx])
    /\ console' =
          IF Previews(info[idx])
          THEN Append(console,
                      PrintTruncated(TruncatedContent(Readlines(Decode(info[idx].bytes)))))
          ELSE console
    /\ idx' = idx + 1
    /\ UNCHANGED <<files, info, final_output>>
    /\ UNCHANGED mainVars

\* lines 269-270
AsmReturn ==
    /\ idx = Len(files) + 1
    /\ final_output = None
    /\ final_output' = Join(output, NL)
    /\ UNCHANGED <<files, info, idx, output, console>>
    /\ UNCHANGED mainVars

\* the outcomes of one file that differ in what the loop does with it
FileCases(contents) ==
    { [bytes |-> << >>, check |-> c, text |-> "ok", tty |-> TRUE] :
          c \in {"open_fail", "read_fail"} }
    \cup { fi \in [bytes : contents, check : {"ok"}, text : {"ok", "fail"},
                   tty : BOOLEAN] :
              /\ is_binary_file(fi) => (fi.text = "ok" /\ fi.tty)
              /\ (fi.text = "fail" \/ fi.bytes = << >>) => fi.tty }

AsmPaths == <<"a.txt", "b.bin", "sub/c.txt">>
AsmTrees == { <<".", "/">>, <<".", "/", NL, " ", " ", " ", " ", "a.txt">> }

MainIdle ==
    /\ fs = {}
    /\ rev = FALSE
    /\ unlistable = {}
    /\ gitignore_lines = << >>
    /\ pc = "final"
    /\ spec = << >>
    /\ walk_stack = << >>
    /\ tree_list = << >>
    /\ files_to_include = << >>
    /\ final_string = None
    /\ clipboard = None
    /\ output_file = None

InitAsm ==
    /\ MainIdle
    /\ tree \in AsmTrees
    /\ \E n \in 0..MaxFiles :
          /\ files = SubSeq(AsmPaths, 1, Min(n, Len(AsmPaths)))
          /\ info \in [1..Min(n, Len(AsmPaths)) -> FileCases(SeqsUpTo({0, 10, 97}, MaxLen))]
    /\ idx = 0
    /\ output = << >>
    /\ final_output = None
    /\ console = << >>

NextAsm ==
    \/ AsmStart
    \/ LoopStep
    \/ AsmReturn

SpecAsm == InitAsm /\ [][NextAsm]_vars

------------------------------------------------------------------------------
(* One long file: contents around the 1024-byte chunk and the 20-line       *)
(* preview.                                                                 *)

Pad(n) == [i \in 1..n |-> 97]
\* k lines, "a\n" and "b\n" in turn
LinesBlock(k) == [i \in 1..(2 * k) |-> IF i % 2 = 0 THEN 10 ELSE IF i % 4 = 1 THEN 97 ELSE 98]

LongContents ==
    { Pad(p) \o LinesBlock(k) \o t :
        p \in {0, ChunkSize - 1, ChunkSize},
        k \in {0, PreviewLines - 1, PreviewLines, PreviewLines + 1},
        t \in SeqsUpTo({0, 10, 97, 255}, MaxTail) }

InitFile ==
    /\ MainIdle
    /\ tree = <<".", "/">>
    /\ files = <<"a.txt">>
    /\ info \in [{1} -> FileCases(LongContents)]
    /\ idx = 0
    /\ output = << >>
    /\ final_output = None
    /\ console = << >>

SpecFile == InitFile /\ [][NextAsm]_vars

------------------------------------------------------------------------------
(* Reading a tree text back: its lines, and the path each line stands for.  *)

MinOf(S) == CHOOSE x \in S : \A y \in S : x <= y

\* the lines of a text, line ends dropped; the empty text has no line
SplitLines(t) ==
    LET B == { i \in 1..Len(t) : t[i] = NL }
        n == Cardinality(B) + 1
        EndOf(k) == IF k = n THEN Len(t) + 1
                    ELSE CHOOSE e \in B : Cardinality({ x \in B : x <= e }) = k
        StartOf(k) == IF k = 1 THEN 1 ELSE EndOf(k - 1) + 1
    IN  IF t = << >> THEN << >>
        ELSE [k \in 1..n |-> SubSeq(t, StartOf(k), EndOf(k) - 1)]

LeadingSpaces(line) ==
    LET K == { i \in 1..Len(line) : line[i] # " " }
    IN  IF K = {} THEN Len(line) ELSE MinOf(K) - 1

IsDirLine(line) == Len(line) >= 2 /\ line[Len(line)] = "/"
LineName(line) ==
    IF LeadingSpaces(line) < Len(line) THEN line[LeadingSpaces(line) + 1] ELSE "?"

\* the nearest directory line before line k that is indented by `indent`
DirLineBefore(L, k, indent) ==
    LET J == { j \in 1..(k - 1) : IsDirLine(L[j]) /\ LeadingSpaces(L[j]) = indent }
    IN  IF J = {} THEN 0 ELSE MaxOf(J)

RECURSIVE PathOfLine(_, _)
\* the path line k of the tree text L stands for (<<"?">> when it has none)
PathOfLine(L, k) ==
    LET line == L[k]
        indent == LeadingSpaces(line)
        up == DirLineBefore(L, k, indent - 4)
    IN  IF indent = 0
        THEN IF line = <<".", "/">> THEN Root ELSE <<"?">>
        ELSE IF up = 0 THEN <<"?">>
        ELSE Append(PathOfLine(L, up), LineName(line))

\* the files a tree text lists, in the order of its lines
TreeFilePaths(t) ==
    LET L == SplitLines(t)
        F == { k \in 1..Len(L) : ~IsDirLine(L[k]) }
        Nth(i) == CHOOSE k \in F : Cardinality({ x \in F : x <= k }) = i
    IN  [i \in 1..Cardinality(F) |-> PathOfLine(L, Nth(i))]

TreeDirLines(L) == { k \in 1..Len(L) : IsDirLine(L[k]) }

SeqToSet(q) == { q[i] : i \in 1..Len(q) }

\* a directory the dirs[:] filter removes
Pruned(d) == d \in fs \cap DirNodes /\ MatchFile(spec, d, TRUE)
UnderPruned(n) == \E d \in DirNodes : IsProperPrefix(d, n) /\ Pruned(d)

\* a directory os.walk yields: neither it nor a directory above it is
\* filtered out, and it and every directory above it can be listed
Visited(d) ==
    /\ d \in ExistingDirs(fs)
    /\ \A a \in ExistingDirs(fs) :
          IsPrefix(a, d) => (a \notin unlistable /\ (a # Root => ~Pruned(a)))

\* the files of directory d that pass the test of lines 168 and 194
IncludedIn(d) ==
    { n \in fs \cap FileNodes :
        /\ Parent(n) = d
        /\ ~MatchFile(spec, n, FALSE)
        /\ Basename(n) # ".gitignore" }

\* both walks have returned; `tree` and `files_to_include` are final
WalksDone == pc = "final"

\* load_gitignore has just returned
Loaded == pc = "tree" /\ walk_stack = << Root >> /\ tree_list = << >>

------------------------------------------------------------------------------
(* Claims on the pattern set and the two walks (specification Spec).        *)

\* C1: once both walks have returned, no path below a directory that matches
\* the combined pattern set (tested with a trailing '/') is in the tree text
\* or in the list of collect_files, whatever the rules say about that path.
C1_PruningIsTerminal ==
    WalksDone =>
        \A n \in fs :
            UnderPruned(n) =>
                /\ n \notin SeqToSet(files_to_include)
                /\ LET L == SplitLines(tree)
                   IN  \A k \in 1..Len(L) : PathOfLine(L, k) # n

\* C1 witness: a file below a pruned directory that a negation rule of
\* .gitignore matches and that the pattern set, asked about the file alone,
\* does not exclude.
C1_Witness ==
    /\ WalksDone
    /\ \E n \in fs \cap FileNodes :
          /\ UnderPruned(n)
          /\ ~MatchFile(spec, n, FALSE)
          /\ \E i \in 1..Len(UserRules) :
                UserRules[i].neg /\ MatchPattern(UserRules[i], n, FALSE)

\* the order of a file list: names ascending within a directory, the files of
\* a directory before those of the directories below it, and the files below
\* one directory never interleaved with others
PreOrderSorted(fl) ==
    /\ \A i, j \in 1..Len(fl) : i < j =>
          /\ fl[i] # fl[j]
          /\ Parent(fl[i]) = Parent(fl[j]) => Rank(Basename(fl[i])) < Rank(Basename(fl[j]))
          /\ ~IsProperPrefix(Parent(fl[j]), Parent(fl[i]))
    /\ \A i, j, k \in 1..Len(fl) : \A d \in DirNodes :
          (i < j /\ j < k /\ IsPrefix(d, fl[i]) /\ IsPrefix(d, fl[k])) => IsPrefix(d, fl[j])

\* C2: the file lines of the tree text, read back as paths, are the list of
\* collect_files, element for element, and that list is in pre-order with the
\* names of each directory ascending.
C2_SameFilesSameOrder ==
    WalksDone =>
        /\ TreeFilePaths(tree) = files_to_include
        /\ PreOrderSorted(files_to_include)

\* C2 witness: scandir lists names in descending order, and the walks include
\* two files of the root and a file two directories down.
C2_Witness ==
    /\ WalksDone
    /\ rev
    /\ { <<"a.txt">>, <<"b.txt">>, <<"sub", "in", "a.txt">> } \subseteq SeqToSet(files_to_include)

\* C3: for every path, tested as a file and as a directory, the list returned
\* by load_gitignore excludes it exactly when the .gitignore rules alone or
\* the built-in rules alone exclude it.
C3_CombinedIsOr ==
    Loaded =>
        \A p \in Nodes : \A slash \in BOOLEAN :
            MatchFile(spec, p, slash)
                = (MatchFile(UserRules, p, slash)
                   \/ MatchFile(default_ignore_patterns, p, slash))

\* C3 witness: .gitignore negates a path the built-in rules exclude
\* ('!build/keep.txt'), and the returned list still excludes it.
C3_Witness ==
    /\ Loaded
    /\ \E p \in FileNodes :
          /\ MatchFile(default_ignore_patterns, p, FALSE)
          /\ ~MatchFile(UserRules, p, FALSE)
          /\ \E i \in 1..Len(UserRules) :
                UserRules[i].neg /\ MatchPattern(UserRules[i], p, FALSE)
          /\ MatchFile(spec, p, FALSE)

\* a directory the traversal comes to: no directory above it is filtered out
\* or fails to list, and it is not filtered out itself
Reached(d) ==
    /\ d \in ExistingDirs(fs)
    /\ d # Root => ~Pruned(d)
    /\ \A a \in ExistingDirs(fs) :
          IsProperPrefix(a, d) => (a \notin unlistable /\ (a # Root => ~Pruned(a)))

\* C6: when a directory the traversal comes to cannot be listed, no tree text
\* and no document is produced, and nothing is handed to a sink.
C6_ListingFailureIsFatal ==
    (pc # "load" /\ \E d \in unlistable : Reached(d)) =>
        /\ tree = None
        /\ final_string = None
        /\ clipboard = None
        /\ output_file = None

\* C6, the end of the run: main does not complete with a document handed to
\* the clipboard after a directory failed to list.
C6_NoDeliveryAfterFailure ==
    (pc = "done" /\ \E d \in unlistable : Reached(d)) => clipboard = None

\* the line build_project_tree is to write for directory d, and for file n
ExpectedDirLine(d) ==
    Spaces(4 * Len(d)) \o << IF d = Root THEN "." ELSE Basename(d), "/" >>
ExpectedFileLine(n) == Spaces(4 * Len(n)) \o << Basename(n) >>

\* C10: the tree text has one line per directory os.walk yields (the visited
\* directories, those with no included file too), 'name/' indented by
\* 4 * depth, './' for the root; each is followed at once by the lines of the
\* included files of that directory, indented by 4 * (depth + 1), and the
\* line after those, if any, is a directory's.
C10_TreeShape ==
    WalksDone =>
        LET L == SplitLines(tree)
            D == TreeDirLines(L)
        IN  /\ Cardinality(D) = Cardinality({ d \in ExistingDirs(fs) : Visited(d) })
            /\ \A d \in ExistingDirs(fs) : Visited(d) =>
                  \E k \in D :
                      /\ L[k] = ExpectedDirLine(d)
                      /\ PathOfLine(L, k) = d
                      /\ LET m == Cardinality(IncludedIn(d))
                         IN  /\ k + m <= Len(L)
                             /\ { L[j] : j \in (k + 1)..(k + m) }
                                   = { ExpectedFileLine(n) : n \in IncludedIn(d) }
                             /\ k + m < Len(L) => (k + m + 1) \in D

\* C10 witness: the tree text holds a directory two levels down with its
\* file at 12 spaces, and a visited directory that has no included file.
C10_Witness ==
    /\ WalksDone
    /\ LET L == SplitLines(tree)
       IN  /\ \E k \in 1..Len(L) : L[k] = Spaces(12) \o <<"a.txt">>
           /\ Visited(<<"sub">>)
           /\ IncludedIn(<<"sub">>) = {}
           /\ \E k \in 1..Len(L) : L[k] = Spaces(4) \o <<"sub", "/">>

------------------------------------------------------------------------------
(* Reading build_final_string's `output` list back: the header of the i-th  *)
(* file and what follows it up to the next header.                          *)

IsHeader(x) == x # << >> /\ x[1] = "### File: "
Heads == { k \in 1..Len(output) : IsHeader(output[k]) }
HeadOfFile(i) ==
    IF i <= Cardinality(Heads)
    THEN CHOOSE k \in Heads : Cardinality({ x \in Heads : x <= k }) = i
    ELSE Len(output) + 1
BodiesOfFile(i) == SubSeq(output, HeadOfFile(i) + 1, HeadOfFile(i + 1) - 1)

\* the files the loop is through with
Processed == { i \in 1..Len(files) : i < idx }

\* a 0x00 byte among the first 1024 bytes
NulInFirstKiB(bytes) == \E i \in 1..Len(bytes) : i <= 1024 /\ bytes[i] = 0

\* the file read as text
TextOf(fi) == Decode(fi.bytes)

------------------------------------------------------------------------------
(* Claims on build_final_string (specifications SpecAsm and SpecFile).      *)

\* C4 as stated: every processed file whose read fails, in the binary check
\* or in the text read, has the placeholder '(Could not read file: ...)' in
\* its section.
C4_AnyFailureCouldNotRead ==
    \A i \in Processed :
        (info[i].check # "ok" \/ info[i].text = "fail") =>
            \E j \in 1..Len(BodiesOfFile(i)) :
                BodiesOfFile(i)[j][1] = "(Could not read file: "

\* C4 amended: a file whose read fails inside is_binary_file (open or
\* read(1024) raises) has '(Binary file omitted)' as its body; a file whose
\* check finds no null byte and whose text read then fails has
\* '(Could not read file: <error>)'; either way every file the loop has come
\* to has its header, and the loop goes on to the end of the list.
C4_FailurePlaceholders ==
    /\ idx >= 1 => Cardinality(Heads) = idx - 1
    /\ final_output # None => Cardinality(Heads) = Len(files)
    /\ \A i \in Processed :
          /\ output[HeadOfFile(i)] = Header(files[i])
          /\ info[i].check # "ok" => BodiesOfFile(i) = << BinaryOmitted >>
          /\ (info[i].check = "ok" /\ ~NulInFirstKiB(info[i].bytes) /\ info[i].text = "fail")
                => BodiesOfFile(i) = << CouldNotRead("OSError") >>

\* C4 witness: the first file cannot be opened, the second fails in the text
\* read, and the function has returned.
C4_Witness ==
    /\ final_output # None
    /\ Len(files) = 2
    /\ info[1].check = "open_fail"
    /\ info[2].check = "ok" /\ info[2].text = "fail"

\* the one body a file's section may hold
OneBody(fi) ==
    { TextOf(fi) \o <<NL>>, BinaryOmitted, EmptyFile,
      CouldNotRead("OSError"), CouldNotRead("UnicodeEncodeError") }

\* C5: the returned document is 'Project Tree:', the tree text and a blank
\* line, then per file of the list, in order, its header block followed by
\* exactly one body: the file's content or one placeholder.
C5_OneSectionPerFile ==
    final_output # None =>
        \E B \in [1..Len(files) -> UNION { OneBody(info[i]) : i \in 1..Len(files) }] :
            /\ \A i \in 1..Len(files) : B[i] \in OneBody(info[i])
            /\ final_output =
                  Join(<< <<"Project Tree:">>, tree, << >> >>
                       \o [k \in 1..(2 * Len(files)) |->
                              IF k % 2 = 1 THEN Header(files[(k + 1) \div 2])
                              ELSE B[k \div 2]],
                       NL)

\* C8: a readable file of 0 bytes has '(Empty file)' as its body; a file
\* that is one newline has its content (the newline, and the newline the
\* program adds) and no '(Empty file)'; the placeholder stands only for a
\* file of zero bytes.
C8_EmptyFileBoundary ==
    \A i \in Processed :
        (info[i].check = "ok" /\ info[i].text = "ok") =>
            /\ info[i].bytes = << >> => BodiesOfFile(i) = << EmptyFile >>
            /\ info[i].bytes = <<10>> => BodiesOfFile(i)[1] = <<NL, NL>>
            /\ (\E j \in 1..Len(BodiesOfFile(i)) : BodiesOfFile(i)[j] = EmptyFile)
                  => info[i].bytes = << >>

\* C8 witness: an empty file and a newline-only file, both readable, have
\* been processed.
C8_Witness ==
    /\ Len(files) = 2
    /\ idx = 3
    /\ info[1] = [bytes |-> << >>, check |-> "ok", text |-> "ok", tty |-> TRUE]
    /\ info[2] = [bytes |-> <<10>>, check |-> "ok", text |-> "ok", tty |-> TRUE]

\* C7 as stated: for a file that can be opened (the open of the check
\* succeeds), the body is '(Binary file omitted)' exactly when a 0x00 byte is
\* among its first 1024 bytes.
C7_OpenedIffNul ==
    \A i \in Processed :
        info[i].check \in {"ok", "read_fail"} =>
            ((BodiesOfFile(i) = << BinaryOmitted >>) <=> NulInFirstKiB(info[i].bytes))

\* C7 amended: for a file whose check opens it and reads its first 1024
\* bytes, the body is '(Binary file omitted)' exactly when a 0x00 byte is
\* among those bytes; without one, a readable non-empty file is emitted as
\* its text, null bytes at offset 1024 or beyond included.
C7_BinaryIffNulInChunk ==
    \A i \in Processed :
        info[i].check = "ok" =>
            /\ (BodiesOfFile(i) = << BinaryOmitted >>) <=> NulInFirstKiB(info[i].bytes)
            /\ (~NulInFirstKiB(info[i].bytes) /\ info[i].text = "ok" /\ info[i].bytes # << >>)
                  => BodiesOfFile(i)[1] = TextOf(info[i]) \o <<NL>>

\* C7 witness: a processed file of 1025 bytes or more whose only null byte is
\* at offset 1024 (the 1025th byte), emitted as text.
C7_Witness ==
    /\ 1 \in Processed
    /\ info[1].check = "ok" /\ info[1].text = "ok"
    /\ Len(info[1].bytes) >= 1025
    /\ info[1].bytes[1025] = 0
    /\ ~NulInFirstKiB(info[1].bytes)
    /\ BodiesOfFile(1)[1] = TextOf(info[1]) \o <<NL>>

\* the number of newlines of a text
NumNL(t) == Cardinality({ i \in 1..Len(t) : t[i] = NL })

\* C9: for a text file, the body in `output` and in the returned document is
\* the whole text of the file, every line in its place, whatever the number
\* of lines; the preview printed is a prefix of the text of at most 20 lines
\* (trailing newlines stripped) followed by '...'.
C9_FullContentInDocument ==
    \A i \in Processed :
        LET fi == info[i]
            T == TextOf(fi)
            P == Len(Join(<< <<"Project Tree:">>, tree, << >>, Header(files[i]) >>, NL)) + 1
        IN  (i = 1 /\ fi.check = "ok" /\ ~NulInFirstKiB(fi.bytes) /\ fi.text = "ok"
               /\ fi.bytes # << >>) =>
                /\ BodiesOfFile(i)[1] = T \o <<NL>>
                /\ final_output # None => SubSeq(final_output, P + 1, P + Len(T)) = T
                /\ fi.tty =>
                      /\ Len(console) = 1
                      /\ LET pv == console[1]
                             c == SubSeq(pv, 2, Len(pv) - 3)
                         IN  /\ Len(pv) >= 4
                             /\ SubSeq(pv, Len(pv) - 2, Len(pv) - 1) = <<"...", NL>>
                             /\ IsPrefix(c, T)
                             /\ NumNL(c) <= 19
                             /\ c # << >> => c[Len(c)] # NL

\* C9 witness: a text file of more than 20 lines has been processed, its
\* preview printed and the document returned.
C9_Witness ==
    /\ final_output # None
    /\ info[1].check = "ok" /\ info[1].text = "ok" /\ info[1].tty
    /\ ~NulInFirstKiB(info[1].bytes)
    /\ NumNL(TextOf(info[1])) >= 21
    /\ Len(console) = 1

====
